---- MODULE Spec2Model ----
(***************************************************************************)
(* One run of an IBB integration-test script of mellium/xmpp: a Daemon     *)
(* subclass (SendIBB or RecvIBB) started through the module-level          *)
(* run_test(cls) of the aioxmpp or of the slixmpp binding, together with   *)
(* the counterpart peer that plays the opposite role and other XMPP        *)
(* entities ("strangers") that may offer byte-streams of their own.        *)
(*                                                                         *)
(* An action is one step of the event loop: a coroutine running from one   *)
(* await to the next, or one callback the library invokes.                 *)
(***************************************************************************)
EXTENDS Integers, Sequences, FiniteSets, TLC

(***************************************************************************)
(* Bounds of the model.                                                    *)
(***************************************************************************)
\* Stream offers other entities make during one run.
MaxStrangerOffers == 1
\* Data chunks other entities push onto streams the script accepted.
MaxStrangerChunks == 1

(***************************************************************************)
(* Inputs of a run.                                                        *)
(***************************************************************************)
Bindings == {"aioxmpp", "slixmpp"}
Roles == {"send", "recv"}
\* What the environment makes go wrong in the run: nothing, the
\* configuration, the connection handshake, or the byte-stream's open,
\* write or close.
Faults == {"none", "config", "handshake", "open", "write", "close"}

\* -j: the counterpart's JID; -sid: the session id the receiver expects.
PeerJid == "peer"
ExpectedSid == "abc123"
Jids == {"peer", "stranger"}
Sids == {"abc123", "zzz999"}
Offers == [from : Jids, sid : Sids]
ExpectedOffer == [from |-> PeerJid, sid |-> ExpectedSid]

\* The two payloads, shortened to their first character, their one
\* character outside ASCII (SendIBB's em dash, bytes E2 80 94) and their
\* last character.
\* "Warren snores ... bear-a bass ... loons."
SendPayload == <<87, 226, 128, 148, 46>>
\* "I feel a deep security ... freight trains."
RecvPayload == <<73, 46>>
\* What another entity pushes onto a stream of its own.
StrangerPayload == <<88>>

OwnPayload(r) == IF r = "send" THEN SendPayload ELSE RecvPayload
PeerPayload(r) == IF r = "send" THEN RecvPayload ELSE SendPayload

(***************************************************************************)
(* bytes.decode('utf-8'): strict UTF-8 decoding of a byte sequence into     *)
(* a sequence of code points; <<-1>> stands for UnicodeDecodeError.        *)
(***************************************************************************)
DecodeError == <<-1>>

IsCont(b) == b >= 128 /\ b <= 191

RECURSIVE Utf8Decode(_)
Utf8Decode(b) ==
    IF b = <<>> THEN <<>>
    ELSE LET b0 == b[1]
             n  == Len(b)
             Rest(k) == Utf8Decode(SubSeq(b, k + 1, n))
             Cons(cp, k) == IF Rest(k) = DecodeError THEN DecodeError
                            ELSE <<cp>> \o Rest(k)
         IN  CASE b0 < 128 -> Cons(b0, 1)
               [] b0 >= 194 /\ b0 <= 223 ->
                    IF n >= 2 /\ IsCont(b[2])
                    THEN Cons((b0 - 192) * 64 + (b[2] - 128), 2)
                    ELSE DecodeError
               [] b0 >= 224 /\ b0 <= 239 ->
                    IF /\ n >= 3 /\ IsCont(b[2]) /\ IsCont(b[3])
                       /\ (b0 = 224 => b[2] >= 160)
                       /\ (b0 = 237 => b[2] <= 159)
                    THEN Cons((b0 - 224) * 4096 + (b[2] - 128) * 64
                              + (b[3] - 128), 3)
                    ELSE DecodeError
               [] b0 >= 240 /\ b0 <= 244 ->
                    IF /\ n >= 4 /\ IsCont(b[2]) /\ IsCont(b[3]) /\ IsCont(b[4])
                       /\ (b0 = 240 => b[2] >= 144)
                       /\ (b0 = 244 => b[2] <= 143)
                    THEN Cons((b0 - 240) * 262144 + (b[2] - 128) * 4096
                              + (b[3] - 128) * 64 + (b[4] - 128), 4)
                    ELSE DecodeError
               [] OTHER -> DecodeError

(***************************************************************************)
(* State.                                                                  *)
(***************************************************************************)
VARIABLES
    binding,      \* which client wrapper runs the script
    role,         \* "send": SendIBB, "recv": RecvIBB
    fault,        \* what goes wrong in this run
    pc,           \* where run_test(cls) / Daemon.run_test stands
    runpc,        \* where the scenario body run() stands
    exc,          \* the exception travelling out of run_test, if any
    exitStatus,   \* the process's exit status, -1 while it runs
    conn,         \* the client connection
    acquired,     \* the session has been established in this run
    releases,     \* how often the script has stopped its client
    accepting,    \* a registration that accepts incoming stream offers is in place
    streams,      \* incoming streams accepted and not yet ended
    sessFut,      \* the awaited stream: open_session / expect_session / self.conn
    endFut,       \* closed_fut / self.end / the result of conn.close()
    data,         \* the byte accumulator
    delivered,    \* every byte the library has handed to the data callback, in order
    sent,         \* the messages the script has sent
    hist,         \* what the script has done on the network, in order
    streamErr,    \* the byte-stream has reported an error to the script
    closeReq,     \* the script has asked to close the stream it opened
    wire,         \* stream events of the counterpart on their way to the script
    peerpc,       \* where the counterpart stands
    peerLeft,     \* payload bytes the counterpart has not written yet
    strangerOffers,  \* offers other entities have made
    strangerChunks   \* chunks other entities have pushed

vars == <<binding, role, fault, pc, runpc, exc, exitStatus, conn, acquired,
          releases, accepting, streams, sessFut, endFut, data, delivered,
          sent, hist, streamErr, closeReq, wire, peerpc, peerLeft,
          strangerOffers, strangerChunks>>

scenario == <<binding, role, fault>>
procVars == <<pc, runpc, exc, exitStatus, conn, acquired, releases>>
streamVars == <<accepting, streams, sessFut, endFut, data, delivered, streamErr>>
peerVars == <<closeReq, wire, peerpc, peerLeft>>
strangerVars == <<strangerOffers, strangerChunks>>

Unset == "unset"
\* No stream yet in a future that will hold one.
NoStream == [from |-> "none", sid |-> "none"]

Init ==
    /\ binding \in Bindings
    /\ role \in Roles
    /\ fault \in Faults
    /\ (fault = "open" => role = "send")
    /\ pc = "new"
    /\ runpc = "idle"
    /\ exc = "none"
    /\ exitStatus = -1
    /\ conn = "none"
    /\ acquired = FALSE
    /\ releases = 0
    /\ accepting = FALSE
    /\ streams = {}
    /\ sessFut = NoStream
    /\ endFut = Unset
    /\ data = <<>>
    /\ delivered = <<>>
    /\ sent = <<>>
    /\ hist = <<>>
    /\ streamErr = FALSE
    /\ closeReq = FALSE
    /\ wire = <<>>
    /\ peerpc = "idle"
    /\ peerLeft = <<>>
    /\ strangerOffers = 0
    /\ strangerChunks = 0

Message(tag, body) == [tag |-> tag, to |-> PeerJid, body |-> body]

(***************************************************************************)
(* run_test(cls): instance = cls(); prepare_argparse(); configure();       *)
(* await instance.run_test().                                              *)
(***************************************************************************)
\* instance = cls(): the accumulator and the futures of __init__.
Daemon_init ==
    /\ pc = "new"
    /\ pc' = "init"
    /\ data' = <<>>
    /\ sessFut' = NoStream
    /\ UNCHANGED <<scenario, runpc, exc, exitStatus, conn, acquired, releases,
                   accepting, streams, endFut, delivered, sent, hist,
                   streamErr, peerVars, strangerVars>>

prepare_argparse ==
    /\ pc = "init"
    /\ pc' = "argparse"
    /\ hist' = Append(hist, "prepare_argparse")
    /\ UNCHANGED <<scenario, runpc, exc, exitStatus, conn, acquired, releases,
                   streamVars, sent, peerVars, strangerVars>>

\* configure with its failure swallowed: the run goes on to run_test.
configure_swallows_failure ==
    /\ pc = "argparse"
    /\ hist' = Append(hist, "configure")
    /\ pc' = "configured"
    /\ accepting' = (binding = "slixmpp" /\ role = "recv")
    /\ endFut' = Unset
    /\ UNCHANGED <<scenario, runpc, exc, exitStatus, conn, acquired, releases,
                   streams, sessFut, data, delivered, sent, streamErr,
                   peerVars, strangerVars>>

\* configure(): parse_args exits with status 2 on a bad argument; reading the
\* config file, a missing field or an invalid JID raises. Otherwise the client
\* is built; the slixmpp RecvIBB also registers xep_0047 with auto_accept and
\* its stream handlers, and creates self.end.
configure ==
    /\ pc = "argparse"
    /\ hist' = Append(hist, "configure")
    /\ IF fault = "config"
       THEN /\ pc' = "exit"
            /\ exc' \in {"error", "exit2"}
            /\ UNCHANGED <<accepting, endFut>>
       ELSE /\ pc' = "configured"
            /\ exc' = exc
            /\ accepting' = (binding = "slixmpp" /\ role = "recv")
            /\ endFut' = Unset
    /\ UNCHANGED <<scenario, runpc, exitStatus, conn, acquired, releases,
                   streams, sessFut, data, delivered, sent, streamErr,
                   peerVars, strangerVars>>

\* asyncio.run(run_test(cls)) is over: the interpreter ends with the status of
\* the exception that came out of it.
asyncio_run ==
    /\ pc = "exit"
    /\ pc' = "exited"
    /\ exitStatus' = CASE exc = "none" -> 0
                       [] exc = "exit2" -> 2
                       [] OTHER -> 1
    /\ UNCHANGED <<scenario, runpc, exc, conn, acquired, releases, streamVars,
                   sent, hist, peerVars, strangerVars>>

(***************************************************************************)
(* The scenario bodies' common steps.                                      *)
(***************************************************************************)
\* run() is left by an exception or by sys.exit: aioxmpp's run_test lets it
\* travel through the async with block, slixmpp runs run() as an event
\* handler, whose wrapper logs the exception and goes on.
Raise(e) ==
    /\ runpc' = "raised"
    /\ IF binding = "aioxmpp"
       THEN pc' = "aexit" /\ exc' = e
       ELSE pc' = pc /\ exc' = exc

\* The Done message: its body is the accumulator, decoded.
SendDone(next) ==
    IF Utf8Decode(data) = DecodeError
    THEN /\ Raise("error")
         /\ UNCHANGED <<sent, hist>>
    ELSE /\ sent' = Append(sent, Message("done", Utf8Decode(data)))
         /\ hist' = Append(hist, "done")
         /\ runpc' = next
         /\ UNCHANGED <<pc, exc>>

(***************************************************************************)
(* TestProtocol (aioxmpp) and the slixmpp event handlers.                  *)
(***************************************************************************)
\* data_received with "=" for "+=": the accumulator keeps the last chunk only.
data_received_overwrite(chunk) == data' = chunk

\* TestProtocol.data_received: self.data += data
data_received(chunk) == data' = data \o chunk

\* TestProtocol.connection_lost: self.closed_fut.set_result(e)
connection_lost(e) == endFut' = e

\* "ibb_stream_data": self.data.extend(stream.recv_queue.get_nowait()),
\* whichever stream the event is of.
ibb_stream_data(chunk) == data' = data \o chunk

\* "ibb_stream_end": self.end.set_result(True), whichever stream the event is
\* of; on a future that is done set_result raises InvalidStateError, which the
\* event dispatcher logs.
ibb_stream_end == endFut' = IF endFut = Unset THEN "ok" ELSE endFut

\* "ibb_stream_start": self.conn.set_result(conn), likewise.
ibb_stream_start(o) == sessFut' = IF sessFut = NoStream THEN o ELSE sessFut

(***************************************************************************)
(* Incoming stream offers.                                                 *)
(***************************************************************************)
\* service.expect_session(TestProtocol, self.args.j, self.args.sid): the one
\* offer of that peer with that session id is let in, once.
expect_session(o) == accepting /\ o.from = PeerJid /\ o.sid = ExpectedSid

\* register_plugin('xep_0047', {'auto_accept': True}): every offer is let in.
auto_accept(o) == accepting

Accepts(o) == IF binding = "aioxmpp" THEN expect_session(o) ELSE auto_accept(o)

\* The library answers an open request: an accepted stream starts and the
\* script's start handler (slixmpp) or expectation (aioxmpp) gets it.
HandleOpen(o) ==
    IF Accepts(o)
    THEN /\ streams' = streams \cup {o}
         /\ hist' = Append(hist, "accept")
         /\ IF binding = "aioxmpp"
            THEN /\ accepting' = FALSE
                 /\ sessFut' = o
                 /\ data' = <<>>
                 /\ endFut' = Unset
            ELSE /\ ibb_stream_start(o)
                 /\ UNCHANGED <<accepting, data, endFut>>
    ELSE UNCHANGED <<streams, hist, accepting, sessFut, data, endFut>>

(***************************************************************************)
(* aioxmpp: Daemon.run_test and the scenario bodies.                       *)
(***************************************************************************)
\* async with self.client.connected(): the client is started.
aioxmpp_run_test ==
    /\ binding = "aioxmpp"
    /\ pc = "configured"
    /\ pc' = "connecting"
    /\ conn' = "connecting"
    /\ hist' = Append(hist, "connect")
    /\ UNCHANGED <<scenario, runpc, exc, exitStatus, acquired, releases,
                   streamVars, sent, peerVars, strangerVars>>

\* RecvIBB.run up to its first await: the Start message.
aioxmpp_RecvIBB_run_start ==
    /\ sent' = Append(sent, Message("start", <<>>))
    /\ hist' = hist \o <<"live", "start">>
    /\ runpc' = "send_start"

\* SendIBB.run up to its first await: service.open_session(TestProtocol, j).
aioxmpp_SendIBB_run_open ==
    /\ sent' = sent
    /\ hist' = hist \o <<"live", "open">>
    /\ runpc' = "open"

\* The connected() block is entered: the handshake failed (the client is
\* stopped and the error raised), or the stream is established and run()
\* starts.
aioxmpp_connected ==
    /\ binding = "aioxmpp"
    /\ pc = "connecting"
    /\ IF fault = "handshake"
       THEN /\ conn' = "closed"
            /\ exc' = "error"
            /\ pc' = "exit"
            /\ UNCHANGED <<runpc, acquired, sent, hist>>
       ELSE /\ conn' = "live"
            /\ acquired' = TRUE
            /\ pc' = "run"
            /\ exc' = exc
            /\ IF role = "recv" THEN aioxmpp_RecvIBB_run_start
                                ELSE aioxmpp_SendIBB_run_open
    /\ UNCHANGED <<scenario, exitStatus, releases, streamVars, peerVars,
                   strangerVars>>

\* RecvIBB.run after the Start message is sent: the IBB service is made and
\* the session expected.
aioxmpp_RecvIBB_run_expect ==
    /\ binding = "aioxmpp" /\ role = "recv"
    /\ pc = "run" /\ runpc = "send_start"
    /\ accepting' = TRUE
    /\ runpc' = "expect"
    /\ UNCHANGED <<scenario, pc, exc, exitStatus, conn, acquired, releases,
                   streams, sessFut, endFut, data, delivered, streamErr,
                   sent, hist, peerVars, strangerVars>>

\* RecvIBB.run once the expected session is there: transport.write(...).
aioxmpp_RecvIBB_run_write ==
    /\ binding = "aioxmpp" /\ role = "recv"
    /\ pc = "run" /\ runpc = "expect"
    /\ sessFut # NoStream
    /\ hist' = Append(hist, "write")
    /\ runpc' = "closed_fut"
    /\ UNCHANGED <<scenario, pc, exc, exitStatus, conn, acquired, releases,
                   streamVars, sent, peerVars, strangerVars>>

\* RecvIBB.run once closed_fut is done: exit on an error, else Done.
aioxmpp_RecvIBB_run_closed ==
    /\ binding = "aioxmpp" /\ role = "recv"
    /\ pc = "run" /\ runpc = "closed_fut"
    /\ endFut # Unset
    /\ IF endFut # "ok"
       THEN Raise("exit1") /\ UNCHANGED <<sent, hist>>
       ELSE SendDone("send_done")
    /\ UNCHANGED <<scenario, exitStatus, conn, acquired, releases,
                   streamVars, peerVars, strangerVars>>

\* SendIBB.run once the session is open (or refused): write, close.
aioxmpp_SendIBB_run_write ==
    /\ binding = "aioxmpp" /\ role = "send"
    /\ pc = "run" /\ runpc = "open"
    /\ wire # <<>>
    /\ Head(wire).kind \in {"open_ok", "open_err"}
    /\ wire' = Tail(wire)
    /\ IF Head(wire).kind = "open_err"
       THEN /\ Raise("error")
            /\ streamErr' = TRUE
            /\ UNCHANGED <<hist, closeReq, sessFut, data, endFut>>
       ELSE /\ sessFut' = ExpectedOffer
            /\ data' = <<>>
            /\ endFut' = Unset
            /\ hist' = hist \o <<"write", "close">>
            /\ closeReq' = TRUE
            /\ runpc' = "closed_fut"
            /\ UNCHANGED <<pc, exc, streamErr>>
    /\ UNCHANGED <<scenario, exitStatus, conn, acquired, releases,
                   accepting, streams, delivered, sent, peerpc, peerLeft,
                   strangerVars>>

\* SendIBB.run with the await on closed_fut left out: Done goes out as soon as
\* close() has been called.
aioxmpp_SendIBB_run_unawaited ==
    /\ binding = "aioxmpp" /\ role = "send"
    /\ pc = "run" /\ runpc = "closed_fut"
    /\ SendDone("send_done")
    /\ UNCHANGED <<scenario, exitStatus, conn, acquired, releases,
                   streamVars, peerVars, strangerVars>>

\* SendIBB.run once closed_fut is done: exit on an error, else Done.
aioxmpp_SendIBB_run_closed ==
    /\ binding = "aioxmpp" /\ role = "send"
    /\ pc = "run" /\ runpc = "closed_fut"
    /\ endFut # Unset
    /\ IF endFut # "ok"
       THEN Raise("exit1") /\ UNCHANGED <<sent, hist>>
       ELSE SendDone("send_done")
    /\ UNCHANGED <<scenario, exitStatus, conn, acquired, releases,
                   streamVars, peerVars, strangerVars>>

\* await self.client.send(msg) of the Done message returns and so does run().
aioxmpp_run_return ==
    /\ binding = "aioxmpp"
    /\ pc = "run" /\ runpc = "send_done"
    /\ runpc' = "returned"
    /\ pc' = "aexit"
    /\ UNCHANGED <<scenario, exc, exitStatus, conn, acquired, releases,
                   streamVars, sent, hist, peerVars, strangerVars>>

\* The connected() block is left, by return or by exception: the client is
\* stopped.
aioxmpp_aexit ==
    /\ binding = "aioxmpp"
    /\ pc = "aexit"
    /\ conn' = "closed"
    /\ releases' = releases + 1
    /\ hist' = Append(hist, "release")
    /\ pc' = "exit"
    /\ UNCHANGED <<scenario, runpc, exc, exitStatus, acquired, streamVars,
                   sent, peerVars, strangerVars>>

(***************************************************************************)
(* slixmpp: Daemon.run_test and the scenario bodies.                       *)
(***************************************************************************)
\* run_test: run_callback is registered for session_start, the client
\* connects, and the coroutine awaits wait_until('session_end').
slixmpp_run_test ==
    /\ binding = "slixmpp"
    /\ pc = "configured"
    /\ pc' = "session_end"
    /\ conn' = "connecting"
    /\ hist' = Append(hist, "connect")
    /\ UNCHANGED <<scenario, runpc, exc, exitStatus, acquired, releases,
                   streamVars, sent, peerVars, strangerVars>>

\* The session_start event firing on a session that is already there: the
\* handler, which stays registered, schedules run() once more.
run_callback_again ==
    /\ binding = "slixmpp"
    /\ pc = "session_end"
    /\ conn \in {"connecting", "live"}
    /\ fault # "handshake"
    /\ conn' = "live"
    /\ acquired' = TRUE
    /\ runpc' = "scheduled"
    /\ hist' = Append(hist, "live")
    /\ UNCHANGED <<scenario, pc, exc, exitStatus, releases, streamVars, sent,
                   peerVars, strangerVars>>

\* The session_start event: run_callback is scheduled as a task of its own.
run_callback ==
    /\ binding = "slixmpp"
    /\ pc = "session_end"
    /\ conn = "connecting"
    /\ fault # "handshake"
    /\ conn' = "live"
    /\ acquired' = TRUE
    /\ runpc' = "scheduled"
    /\ hist' = Append(hist, "live")
    /\ UNCHANGED <<scenario, pc, exc, exitStatus, releases, streamVars, sent,
                   peerVars, strangerVars>>

\* The session_end event, which the library fires when the connection is
\* lost: the server or the harness ends the session, or the library
\* disconnects after a failed handshake. wait_until returns, run_test
\* returns without an exception, asyncio.run cancels what is left of run()
\* and the process ends.
session_end ==
    /\ binding = "slixmpp"
    /\ pc = "session_end"
    /\ \/ conn = "live"
       \/ conn = "connecting" /\ fault = "handshake"
    /\ conn' = "closed"
    /\ pc' = "exited"
    /\ exitStatus' = 0
    /\ runpc' = IF runpc \in {"idle", "returned", "raised"} THEN runpc
                ELSE "cancelled"
    /\ UNCHANGED <<scenario, exc, acquired, releases, streamVars, sent, hist,
                   peerVars, strangerVars>>

\* await self.client.wait_until('session_end') is called without a timeout
\* argument, and wait_until's default is 30 seconds: when they are over
\* asyncio.TimeoutError leaves run_test, asyncio.run cancels what is left of
\* run() and the process ends with a traceback, the client never disconnected.
wait_until_timeout ==
    /\ binding = "slixmpp"
    /\ pc = "session_end"
    /\ conn \in {"connecting", "live"}
    /\ conn' = "aborted"
    /\ exc' = "timeout"
    /\ pc' = "exited"
    /\ exitStatus' = 1
    /\ runpc' = IF runpc \in {"idle", "returned", "raised"} THEN runpc
                ELSE "cancelled"
    /\ UNCHANGED <<scenario, acquired, releases, streamVars, sent, hist,
                   peerVars, strangerVars>>

\* RecvIBB.run up to await self.conn: the Start message, whose body is the
\* accumulator, decoded.
slixmpp_RecvIBB_run_start ==
    /\ binding = "slixmpp" /\ role = "recv"
    /\ conn = "live" /\ runpc = "scheduled"
    /\ IF Utf8Decode(data) = DecodeError
       THEN Raise("error") /\ UNCHANGED <<sent, hist>>
       ELSE /\ sent' = Append(sent, Message("start", Utf8Decode(data)))
            /\ hist' = Append(hist, "start")
            /\ runpc' = "conn"
            /\ UNCHANGED <<pc, exc>>
    /\ UNCHANGED <<scenario, exitStatus, conn, acquired, releases,
                   streamVars, peerVars, strangerVars>>

\* RecvIBB.run once self.conn is done: await conn.sendall(...), which raises
\* when the stream reports an error or has ended by then.
slixmpp_RecvIBB_run_sendall ==
    /\ binding = "slixmpp" /\ role = "recv"
    /\ conn = "live" /\ runpc = "conn"
    /\ sessFut # NoStream
    /\ hist' = Append(hist, "write")
    /\ IF fault = "write" \/ sessFut \notin streams
       THEN Raise("error") /\ streamErr' = TRUE
       ELSE runpc' = "end" /\ UNCHANGED <<pc, exc, streamErr>>
    /\ UNCHANGED <<scenario, exitStatus, conn, acquired, releases,
                   accepting, streams, sessFut, endFut, data, delivered,
                   sent, peerVars, strangerVars>>

\* RecvIBB.run once self.end is done: the Done message; run() returns.
slixmpp_RecvIBB_run_done ==
    /\ binding = "slixmpp" /\ role = "recv"
    /\ conn = "live" /\ runpc = "end"
    /\ endFut # Unset
    /\ SendDone("returned")
    /\ UNCHANGED <<scenario, exitStatus, conn, acquired, releases,
                   streamVars, peerVars, strangerVars>>

\* SendIBB.run up to await ibb.open_stream(self.args.j): the data handler is
\* registered and the stream requested.
slixmpp_SendIBB_run_open ==
    /\ binding = "slixmpp" /\ role = "send"
    /\ conn = "live" /\ runpc = "scheduled"
    /\ hist' = Append(hist, "open")
    /\ runpc' = "open"
    /\ UNCHANGED <<scenario, pc, exc, exitStatus, conn, acquired, releases,
                   streamVars, sent, peerVars, strangerVars>>

\* SendIBB.run once open_stream returns (or raises): await conn.sendall(...).
slixmpp_SendIBB_run_sendall ==
    /\ binding = "slixmpp" /\ role = "send"
    /\ conn = "live" /\ runpc = "open"
    /\ wire # <<>>
    /\ Head(wire).kind \in {"open_ok", "open_err"}
    /\ wire' = Tail(wire)
    /\ IF Head(wire).kind = "open_err"
       THEN /\ Raise("error")
            /\ streamErr' = TRUE
            /\ UNCHANGED <<hist, sessFut>>
       ELSE /\ sessFut' = ExpectedOffer
            /\ hist' = Append(hist, "write")
            /\ runpc' = "sendall"
            /\ UNCHANGED <<pc, exc, streamErr>>
    /\ UNCHANGED <<scenario, exitStatus, conn, acquired, releases,
                   accepting, streams, endFut, data, delivered, sent,
                   closeReq, peerpc, peerLeft, strangerVars>>

\* SendIBB.run once sendall returns (or raises): await conn.close().
slixmpp_SendIBB_run_close ==
    /\ binding = "slixmpp" /\ role = "send"
    /\ conn = "live" /\ runpc = "sendall"
    /\ IF fault = "write"
       THEN /\ Raise("error")
            /\ streamErr' = TRUE
            /\ UNCHANGED <<hist, closeReq>>
       ELSE /\ hist' = Append(hist, "close")
            /\ closeReq' = TRUE
            /\ runpc' = "close"
            /\ UNCHANGED <<pc, exc, streamErr>>
    /\ UNCHANGED <<scenario, exitStatus, conn, acquired, releases,
                   accepting, streams, sessFut, endFut, data, delivered,
                   sent, wire, peerpc, peerLeft, strangerVars>>

\* SendIBB.run once close returns (or raises): the Done message; run() returns.
slixmpp_SendIBB_run_done ==
    /\ binding = "slixmpp" /\ role = "send"
    /\ conn = "live" /\ runpc = "close"
    /\ endFut # Unset
    /\ IF endFut # "ok"
       THEN Raise("error") /\ UNCHANGED <<sent, hist>>
       ELSE SendDone("returned")
    /\ UNCHANGED <<scenario, exitStatus, conn, acquired, releases,
                   streamVars, peerVars, strangerVars>>

(***************************************************************************)
(* The counterpart, following the opposite role.                           *)
(***************************************************************************)
Item(kind, bytes) == [kind |-> kind, bytes |-> bytes]

StartSeen == \E i \in 1..Len(sent) : sent[i].tag = "start"

\* The initiating counterpart has seen the Start message and opens a stream
\* to the script with the session id the script was told to expect.
peer_open ==
    /\ role = "recv" /\ conn = "live"
    /\ peerpc = "idle"
    /\ StartSeen
    /\ HandleOpen(ExpectedOffer)
    /\ IF Accepts(ExpectedOffer)
       THEN peerpc' = "open" /\ peerLeft' = PeerPayload(role)
       ELSE peerpc' = "refused" /\ peerLeft' = peerLeft
    /\ UNCHANGED <<scenario, procVars, delivered, streamErr, sent, closeReq,
                   wire, strangerVars>>

\* The accepting counterpart answers the script's open request, and on
\* accepting it has its own payload to write.
peer_accept ==
    /\ role = "send" /\ conn = "live"
    /\ peerpc = "idle"
    /\ runpc = "open"
    /\ IF fault = "open"
       THEN /\ wire' = Append(wire, Item("open_err", <<>>))
            /\ peerpc' = "refused"
            /\ peerLeft' = peerLeft
       ELSE /\ wire' = Append(wire, Item("open_ok", <<>>))
            /\ peerpc' = "open"
            /\ peerLeft' = PeerPayload(role)
    /\ UNCHANGED <<scenario, procVars, streamVars, sent, hist, closeReq,
                   strangerVars>>

\* The counterpart's transport sends the next chunk of its payload.
peer_write ==
    /\ conn = "live"
    /\ peerpc = "open"
    /\ \E n \in 1..Len(peerLeft) :
         /\ wire' = Append(wire, Item("data", SubSeq(peerLeft, 1, n)))
         /\ peerLeft' = SubSeq(peerLeft, n + 1, Len(peerLeft))
    /\ UNCHANGED <<scenario, procVars, streamVars, sent, hist, closeReq,
                   peerpc, strangerVars>>

StreamBreaks == fault \in {"write", "close"}

\* The initiating counterpart closes the stream after writing its payload, or
\* the stream breaks.
peer_close ==
    /\ role = "recv" /\ conn = "live"
    /\ peerpc = "open"
    /\ peerLeft = <<>> \/ StreamBreaks
    /\ wire' = Append(wire, Item(IF StreamBreaks THEN "end_err" ELSE "end_ok",
                                 <<>>))
    /\ peerpc' = "closed"
    /\ UNCHANGED <<scenario, procVars, streamVars, sent, hist, closeReq,
                   peerLeft, strangerVars>>

\* The accepting counterpart gets the script's close request: it answers and
\* writes no more.
peer_closed ==
    /\ role = "send" /\ conn = "live"
    /\ peerpc = "open"
    /\ closeReq
    /\ wire' = Append(wire, Item(IF StreamBreaks THEN "end_err" ELSE "end_ok",
                                 <<>>))
    /\ peerpc' = "closed"
    /\ UNCHANGED <<scenario, procVars, streamVars, sent, hist, closeReq,
                   peerLeft, strangerVars>>

(***************************************************************************)
(* The library hands the stream's events to the script's callbacks.        *)
(***************************************************************************)
\* The future run() awaits is done and run() has not been resumed yet: its
\* wake-up is in the event loop's ready queue, ahead of the callback of any
\* later read from the socket. The counterpart sends its next stanza only
\* after the answer to the one before, so that stanza comes with a later read.
Woken ==
    \/ runpc \in {"expect", "conn"} /\ sessFut # NoStream
    \/ runpc \in {"closed_fut", "end", "close"} /\ endFut # Unset

stream_data ==
    /\ conn = "live"
    /\ ~Woken
    /\ wire # <<>>
    /\ Head(wire).kind = "data"
    /\ wire' = Tail(wire)
    /\ delivered' = delivered \o Head(wire).bytes
    /\ IF binding = "aioxmpp" THEN data_received(Head(wire).bytes)
                              ELSE ibb_stream_data(Head(wire).bytes)
    /\ UNCHANGED <<scenario, procVars, accepting, streams, sessFut, endFut,
                   streamErr, sent, hist, closeReq, peerpc, peerLeft,
                   strangerVars>>

stream_end ==
    /\ conn = "live"
    /\ ~Woken
    /\ wire # <<>>
    /\ Head(wire).kind \in {"end_ok", "end_err"}
    /\ wire' = Tail(wire)
    /\ streams' = streams \ {ExpectedOffer}
    /\ streamErr' = (streamErr \/ Head(wire).kind = "end_err")
    /\ LET e == IF Head(wire).kind = "end_ok" THEN "ok" ELSE "err"
       IN  CASE binding = "aioxmpp" -> connection_lost(e)
             [] binding = "slixmpp" /\ role = "recv" -> ibb_stream_end
             [] OTHER -> endFut' = e
    /\ UNCHANGED <<scenario, procVars, accepting, sessFut, data, delivered,
                   sent, hist, closeReq, peerpc, peerLeft, strangerVars>>

(***************************************************************************)
(* Other entities: offers that do not match, and what they do with a       *)
(* stream the script let in.                                               *)
(***************************************************************************)
stranger_open(o) ==
    /\ conn = "live"
    /\ o # ExpectedOffer
    /\ o \notin streams
    /\ strangerOffers < MaxStrangerOffers
    /\ strangerOffers' = strangerOffers + 1
    /\ HandleOpen(o)
    /\ UNCHANGED <<scenario, procVars, delivered, streamErr, sent, peerVars,
                   strangerChunks>>

stranger_data(o) ==
    /\ conn = "live"
    /\ o # ExpectedOffer
    /\ o \in streams
    /\ strangerChunks < MaxStrangerChunks
    /\ strangerChunks' = strangerChunks + 1
    /\ delivered' = delivered \o StrangerPayload
    /\ IF binding = "aioxmpp" THEN data_received(StrangerPayload)
                              ELSE ibb_stream_data(StrangerPayload)
    /\ UNCHANGED <<scenario, procVars, accepting, streams, sessFut, endFut,
                   streamErr, sent, hist, peerVars, strangerOffers>>

stranger_end(o) ==
    /\ conn = "live"
    /\ o # ExpectedOffer
    /\ o \in streams
    /\ streams' = streams \ {o}
    /\ IF binding = "aioxmpp" THEN connection_lost("ok") ELSE ibb_stream_end
    /\ UNCHANGED <<scenario, procVars, accepting, sessFut, data, delivered,
                   streamErr, sent, hist, peerVars, strangerVars>>

(***************************************************************************)
(* The specifications.                                                     *)
(***************************************************************************)
\* The script's own steps.
Script ==
    \/ Daemon_init
    \/ prepare_argparse
    \/ configure
    \/ aioxmpp_run_test
    \/ aioxmpp_connected
    \/ aioxmpp_RecvIBB_run_expect
    \/ aioxmpp_RecvIBB_run_write
    \/ aioxmpp_RecvIBB_run_closed
    \/ aioxmpp_SendIBB_run_write
    \/ aioxmpp_SendIBB_run_closed
    \/ aioxmpp_run_return
    \/ aioxmpp_aexit
    \/ slixmpp_run_test
    \/ run_callback
    \/ wait_until_timeout
    \/ slixmpp_RecvIBB_run_start
    \/ slixmpp_RecvIBB_run_sendall
    \/ slixmpp_RecvIBB_run_done
    \/ slixmpp_SendIBB_run_open
    \/ slixmpp_SendIBB_run_sendall
    \/ slixmpp_SendIBB_run_close
    \/ slixmpp_SendIBB_run_done
    \/ asyncio_run

\* The counterpart's steps and the delivery of its stream's events.
Counterpart ==
    \/ peer_open
    \/ peer_accept
    \/ peer_write
    \/ peer_close
    \/ peer_closed
    \/ stream_data
    \/ stream_end

\* What nothing obliges to happen: the end of the session from outside, and
\* other entities' traffic.
Outside ==
    \/ session_end
    \/ \E o \in Offers : stranger_open(o)
    \/ \E o \in Offers : stranger_data(o)
    \/ \E o \in Offers : stranger_end(o)

Next == Script \/ Counterpart \/ Outside

Spec == Init /\ [][Next]_vars

\* The event loop runs every step that stays ready, and the server delivers
\* what the counterpart sends.
FairSpec == Spec /\ WF_vars(Script) /\ WF_vars(Counterpart)

(***************************************************************************)
(* The claims.                                                             *)
(***************************************************************************)
Dones == {i \in 1..Len(sent) : sent[i].tag = "done"}
Starts == {i \in 1..Len(sent) : sent[i].tag = "start"}
RunOver == runpc \in {"returned", "raised"}
Did(what) == \E i \in 1..Len(hist) : hist[i] = what

\* C1: in a run that acquired the connection, once run() is over (it
\* returned, raised or exited) the connection does not stay established
\* beyond the step that releases it, it is released at most once, and a
\* process that has ended after run() has released it exactly once.
C1_ReleasedOnEveryExit ==
    acquired =>
        /\ releases <= 1
        /\ (RunOver /\ pc # "aexit" => conn # "live")
        /\ (RunOver /\ pc = "exited" => releases = 1 /\ conn = "closed")

\* A receiver that has sent Start, awaits its stream and has let nothing in.
AwaitingStreamOffer ==
    /\ runpc \in {"send_start", "expect", "conn"}
    /\ streams = {}
    /\ sessFut = NoStream
    /\ data = <<>>
    /\ ~Did("accept")
    /\ ~Did("write")

\* C2: an offer with another session id or from another JID leaves a receiver
\* that is in AwaitingStreamOffer in AwaitingStreamOffer: no stream accepted,
\* nothing written, nothing accumulated; so it does after any sequence of them.
C2_MismatchedOffersIgnored ==
    [][(/\ role = "recv"
        /\ AwaitingStreamOffer
        /\ strangerOffers' = strangerOffers + 1) => AwaitingStreamOffer']_vars

\* C3: whenever a Done message is sent, its body is the UTF-8 decoding of the
\* bytes the stream-data callback received, in arrival order, and is not the
\* payload the role wrote itself.
C3_DoneEchoesReceived ==
    [][(Len(sent') = Len(sent) + 1 /\ sent'[Len(sent')].tag = "done") =>
           /\ sent'[Len(sent')].body = Utf8Decode(delivered)
           /\ sent'[Len(sent')].body # Utf8Decode(OwnPayload(role))]_vars

\* C3's case: a receiver has sent Done after the sender's whole payload, the
\* character outside ASCII included, reached its callback.
C3_Witness ==
    /\ role = "recv"
    /\ delivered = SendPayload
    /\ Dones # {}
    /\ \A i \in Dones : sent[i].body = <<87, 8212, 46>>

\* C4: with no fault in the run, the Done message the sender sends carries
\* the whole of the receiver's payload.
C4_SenderDoneCarriesWholePayload ==
    (role = "send" /\ fault = "none") =>
        \A i \in Dones : sent[i].body = Utf8Decode(RecvPayload)

\* C5: at the moment the end of the sender's stream reaches the receiver,
\* the receiver's accumulator is exactly the payload the sender wrote.
C5_AccumulatorIsPayloadAtStreamEnd ==
    [][(/\ role = "recv" /\ fault = "none"
        /\ wire # <<>> /\ Head(wire).kind = "end_ok"
        /\ wire' = Tail(wire)) => data' = SendPayload]_vars

\* C6: once the byte-stream has reported an error on open, write or close,
\* the stream is not opened again, no Done message is sent, and a process
\* that has ended has ended with a non-zero status.
C6_StreamErrorIsFatal ==
    streamErr =>
        /\ Dones = {}
        /\ Cardinality({i \in 1..Len(hist) : hist[i] = "open"}) <= 1
        /\ (pc = "exited" => exitStatus # 0)

\* C7: in a run without faults, under fairness, the script eventually has
\* sent Done and its process has ended with status 0.
C7_PairedRunsTerminate ==
    (fault = "none") => <>(Dones # {} /\ pc = "exited" /\ exitStatus = 0)

\* C8: when the handshake fails, run() is never invoked, the connection does
\* not stay up, and a process that has ended has ended with a non-zero status.
C8_HandshakeFailureIsFatal ==
    (fault = "handshake") =>
        /\ runpc = "idle"
        /\ ~acquired
        /\ (pc = "exited" => exitStatus # 0 /\ conn \notin {"connecting", "live"})

\* C9: run_test(cls) runs prepare_argparse, configure and run_test in that
\* order, and a run whose configure fails makes no connection attempt, sends
\* no message and touches no stream.
C9_ConfigFailureBeforeNetwork ==
    /\ (Len(hist) >= 1 => hist[1] = "prepare_argparse")
    /\ (Len(hist) >= 2 => hist[2] = "configure")
    /\ (Len(hist) >= 3 => hist[3] = "connect")
    /\ (conn # "none" => pc \notin {"new", "init", "argparse"})
    /\ (fault = "config" =>
            /\ Len(hist) <= 2
            /\ conn = "none"
            /\ runpc = "idle"
            /\ sent = <<>>
            /\ streams = {} /\ sessFut = NoStream /\ data = <<>>
            /\ (pc = "exited" => exitStatus # 0))

\* C9's case: configure has failed and the process has ended.
C9_Witness ==
    /\ fault = "config"
    /\ hist = <<"prepare_argparse", "configure">>
    /\ pc = "exited"
    /\ exitStatus = 2

\* C10: a receiver sends exactly one Start message, as its first message once
\* the connection is live, and before it accepts a stream, writes its payload
\* or sends Done.
C10_StartPrecedesStream ==
    (role = "recv") =>
        /\ Cardinality(Starts) <= 1
        /\ (sent # <<>> => sent[1].tag = "start")
        /\ (runpc \notin {"idle", "scheduled", "raised", "cancelled"}
                => Cardinality(Starts) = 1)
        /\ \A i \in 1..Len(hist) :
               hist[i] \in {"accept", "write", "done"} =>
                   \E j \in 1..(i - 1) : hist[j] = "start"

\* The stream steps a script has taken, in order.
StreamSteps == SelectSeq(hist, LAMBDA h : h \in {"open", "write", "close", "done"})

IsPrefix(s, t) == Len(s) <= Len(t) /\ SubSeq(t, 1, Len(s)) = s

\* C11: a sender's stream steps are, in this order, open, write, close, Done:
\* it opens as its first step on the live connection and sends no Start, it
\* writes only on the stream open_session / open_stream returned for the
\* configured peer, and it has sent Done only after the close it asked for
\* was reported without error.
C11_SenderStepsInOrder ==
    (role = "send") =>
        /\ IsPrefix(StreamSteps, <<"open", "write", "close", "done">>)
        /\ Starts = {}
        /\ \A i \in 1..Len(hist) :
               hist[i] = "open" => i > 1 /\ hist[i - 1] = "live"
        /\ (Did("write") => sessFut.from = PeerJid)
        /\ (Dones # {} => closeReq /\ endFut = "ok" /\ ~streamErr)

\* C11's case: a sender has gone through all four steps.
C11_Witness ==
    /\ role = "send"
    /\ StreamSteps = <<"open", "write", "close", "done">>
    /\ Dones # {}
    /\ endFut = "ok"

\* The end of the stream between the script and its counterpart has reached
\* the script's callback.
OwnStreamEnded ==
    /\ peerpc = "closed"
    /\ \A i \in 1..Len(wire) : wire[i].kind \notin {"end_ok", "end_err"}

\* C12: the accumulator changes only by the data callback appending the chunk
\* it was handed, and a message sent before the end of the role's stream has
\* fired has nothing of the accumulator in its body: its body is empty.
C12_AccumulatorReadAfterStreamEnd ==
    [][/\ (data' # data =>
              /\ Len(delivered') > Len(delivered)
              /\ data' = data \o SubSeq(delivered', Len(delivered) + 1,
                                        Len(delivered')))
       /\ (Len(sent') = Len(sent) + 1 /\ ~OwnStreamEnded =>
              sent'[Len(sent')].body = <<>>)]_vars

\* C13: in a receiver run without faults, whatever offers other entities
\* make, run() raises nothing and no exception leaves run_test, and a Done
\* that has been sent was sent on the run with the correct offer: that offer
\* was the one the receiver took and its stream has ended.
C13_MismatchedOfferNotFatal ==
    (role = "recv" /\ fault = "none") =>
        /\ runpc # "raised"
        /\ exc \in {"none", "timeout"}
        /\ (Dones # {} => sessFut = ExpectedOffer /\ OwnStreamEnded)

\* C14: a receiver has sent at most one Done, and a receiver that has sent one
\* had accepted the counterpart's stream, has seen that stream's end, and the
\* stream reported no error.
C14_ReceiverDoneAfterCleanEnd ==
    (role = "recv") =>
        /\ Cardinality(Dones) <= 1
        /\ (Dones # {} => /\ sessFut = ExpectedOffer
                          /\ OwnStreamEnded
                          /\ ~streamErr)

\* How often run() has been invoked: the binding invokes it where the
\* session becomes live.
RunInvocations == Cardinality({i \in 1..Len(hist) : hist[i] = "live"})

C16_RegisteredWhenStartIsOut ==
    (role = "recv") => peerpc # "refused"

\* C17: a receiver's accumulator holds bytes of the counterpart's stream
\* only, the stream it waited for is the one offered by the expected peer
\* with the expected session id, and its end signal is done only once that
\* stream has ended.
C17_OnlyTheExpectedStream ==
    (role = "recv") =>
        /\ IsPrefix(data, SendPayload)
        /\ sessFut \in {NoStream, ExpectedOffer}
        /\ (endFut # Unset => OwnStreamEnded)

\* run() is suspended on a stream that has not been offered, or on the end
\* of a stream that has not been reported.
Suspended ==
    /\ conn = "live"
    /\ \/ runpc \in {"expect", "conn"} /\ sessFut = NoStream
       \/ runpc \in {"closed_fut", "close", "end"} /\ endFut = Unset

\* C18: there is no timeout: unless the session is ended from outside, a step
\* taken while run() is suspended on its stream leaves run() where it is,
\* sends no message, does not release the connection and does not end the
\* process.
C18_NoInternalTimeout ==
    [][(Suspended /\ conn' # "closed") =>
           /\ runpc' = runpc
           /\ pc' = pc
           /\ sent' = sent
           /\ releases' = releases
           /\ exitStatus' = exitStatus]_vars


====
